---- MODULE Spec2Model ----
(***************************************************************************)
(* Model of src/app.py: the Flask handlers over the Cosmos DB container,   *)
(* the Auth0 provisioning chain of /createApp and the GitHub workflow      *)
(* dispatch of /trigger-deploy.                                            *)
(*                                                                         *)
(* The three external services are modelled by what the handlers can see   *)
(* of them:                                                                *)
(*   - the container is a map from partition key (= document id, line 59)  *)
(*     to the document stored under it; every call may fail with a         *)
(*     CosmosHttpResponseError;                                            *)
(*   - the identity provider holds the objects created so far; every call  *)
(*     may fail;                                                           *)
(*   - the CI platform answers a dispatch with 204, with another status,   *)
(*     or not at all.                                                      *)
(***************************************************************************)
EXTENDS Naturals, Sequences, FiniteSets

VARIABLES
    store,          \* the container: document id -> document, or NoItem
    written,        \* history: ids under which a document was ever stored
    deletedNoWrite, \* history: ids deleted with 200 since the last store write
    edits,          \* /edit requests between read_item and replace_item
    last,           \* the most recent handler step and its response
    appPc,          \* /createApp: position of the request in the handler
    appBody,        \* /createApp: the request body
    appCalls,       \* /createApp: remote calls issued by the request, in order
    appStatus,      \* /createApp: response status (0: no response yet)
    appMsg,         \* /createApp: field names listed in the 400 message
    appClient,      \* /createApp: auth0_app["client_id"] (0: not created)
    appOrg,         \* /createApp: org["id"] (0: not created)
    appBase,        \* history: the provider's object counts when the request began
    orphans,        \* history: objects created by requests that ended in 500
    clients,        \* identity provider: applications
    orgs,           \* identity provider: organizations
    conns,          \* identity provider: organization connections
    invites,        \* identity provider: invitations
    ghPat,          \* GITHUB_PAT
    ghOwner,        \* GITHUB_OWNER
    depLast,        \* /trigger-deploy: the most recent request and response
    dispatched      \* CI platform: the dispatch calls received

storeVars == <<store, written, deletedNoWrite, edits, last>>
appVars == <<appPc, appBody, appCalls, appStatus, appMsg, appClient, appOrg,
             appBase, orphans, clients, orgs, conns, invites>>
depVars == <<ghPat, ghOwner, depLast, dispatched>>
vars == <<storeVars, appVars, depVars>>

----------------------------------------------------------------------------
(* JSON values *)

\* a key that is not in the object (dict.get gives None, `in` gives False)
Absent == "<absent>"
\* the empty string, falsy like None
Empty == ""
\* a request whose JSON body is null: get_json() gives None
Null == "<null>"

\* Python truth of a value taken with dict.get
Falsy(v) == v \in {Absent, Empty}

----------------------------------------------------------------------------
(* Documents *)

Keys == {"t1", "t2"}
Names == {"Acme", "Acme2"}
Fields == {"id", "TenantId", "name"}

\* A JSON object over the three fields the model follows; a field holding
\* Absent is not in the object.
Objects == [id : Keys \cup {Absent},
            TenantId : Keys \cup {Absent},
            name : Names \cup {Absent}]

\* {} as a body; in `store` it stands for "no document under this id"
\* (a stored document always has its id)
NoItem == [id |-> Absent, TenantId |-> Absent, name |-> Absent]

\* mutant of Merge: the stored fields win over the patch's
MergeItemWins(item, patch) ==
    [f \in Fields |-> IF item[f] # Absent THEN item[f] ELSE patch[f]]

\* dict.update: the patch's fields win, the others are kept
Merge(item, patch) ==
    [f \in Fields |-> IF patch[f] # Absent THEN patch[f] ELSE item[f]]

NoEdit == [key |-> Absent, patch |-> NoItem, snap |-> NoItem]

\* the number of /edit requests that can be in flight at once
NumEditReqs == 2
EditReqs == 1..NumEditReqs

Resp(op, key, status, ok, data, prev) ==
    [op |-> op, key |-> key, status |-> status, storeOk |-> ok,
     data |-> data, prev |-> prev]

InitStore ==
    /\ store = [k \in Keys |-> NoItem]
    /\ written = {}
    /\ deletedNoWrite = {}
    /\ edits = [r \in EditReqs |-> NoEdit]
    /\ last = Resp("none", Absent, 0, TRUE, NoItem, NoItem)

\* POST /write
WriteOrUpdateData(data) ==
    /\ UNCHANGED <<edits, appVars, depVars>>
    /\ IF data = NoItem \/ data.id = Absent
       THEN /\ last' = Resp("write", Absent, 400, TRUE, data, NoItem)
            /\ UNCHANGED <<store, written, deletedNoWrite>>
       ELSE \E ok \in BOOLEAN :
            IF ok
            THEN /\ store' = [store EXCEPT ![data.id] = data]
                 /\ written' = written \cup {data.id}
                 /\ deletedNoWrite' = {}
                 /\ last' = Resp("write", data.id, 201, TRUE, data, NoItem)
            ELSE /\ last' = Resp("write", data.id, 500, FALSE, data, NoItem)
                 /\ UNCHANGED <<store, written, deletedNoWrite>>

\* the query of /retrieve: SELECT * FROM c WHERE c.TenantId = @tenant_id
QueryItems(tenant_id) ==
    {store[k] : k \in {j \in Keys : store[j] # NoItem
                                      /\ store[j].TenantId = tenant_id}}

\* GET /retrieve/<tenant_id>
RetrieveData(tenant_id) ==
    /\ UNCHANGED <<store, written, deletedNoWrite, edits, appVars, depVars>>
    /\ \E ok \in BOOLEAN :
       IF ~ok
       THEN last' = Resp("retrieve", tenant_id, 500, FALSE, NoItem, NoItem)
       ELSE IF QueryItems(tenant_id) = {}
       THEN last' = Resp("retrieve", tenant_id, 404, TRUE, NoItem, NoItem)
       ELSE \E item \in QueryItems(tenant_id) :
                last' = Resp("retrieve", tenant_id, 200, TRUE, item, NoItem)

\* DELETE /delete/<id>
DeleteData(id) ==
    /\ UNCHANGED <<written, edits, appVars, depVars>>
    /\ \E ok \in BOOLEAN :
       IF ~ok
       THEN /\ last' = Resp("delete", id, 500, FALSE, NoItem, NoItem)
            /\ UNCHANGED <<store, deletedNoWrite>>
       ELSE IF store[id] = NoItem
       THEN /\ last' = Resp("delete", id, 404, TRUE, NoItem, NoItem)
            /\ UNCHANGED <<store, deletedNoWrite>>
       ELSE /\ store' = [store EXCEPT ![id] = NoItem]
            /\ deletedNoWrite' = deletedNoWrite \cup {id}
            /\ last' = Resp("delete", id, 200, TRUE, NoItem, NoItem)

\* PUT /edit/<id>, up to and including read_item
EditRead(r, id, updated_data) ==
    /\ edits[r] = NoEdit
    /\ UNCHANGED <<store, written, deletedNoWrite, appVars, depVars>>
    /\ IF updated_data = NoItem
       THEN /\ last' = Resp("edit", id, 400, TRUE, updated_data, NoItem)
            /\ UNCHANGED edits
       ELSE \E ok \in BOOLEAN :
            IF ~ok
            THEN /\ last' = Resp("edit", id, 500, FALSE, updated_data, store[id])
                 /\ UNCHANGED edits
            ELSE IF store[id] = NoItem
            THEN /\ last' = Resp("edit", id, 404, TRUE, updated_data, NoItem)
                 /\ UNCHANGED edits
            ELSE /\ edits' = [edits EXCEPT ![r] =
                         [key |-> id, patch |-> updated_data, snap |-> store[id]]]
                 /\ last' = Resp("edit", id, 0, TRUE, updated_data, store[id])

\* mutant of EditWriteBack: the merged item is written by deleting the
\* document read and creating the merged one
EditWriteBackMove(r) ==
    /\ edits[r] # NoEdit
    /\ edits' = [edits EXCEPT ![r] = NoEdit]
    /\ UNCHANGED <<written, appVars, depVars>>
    /\ LET id == edits[r].key
           patch == edits[r].patch
           item == Merge(edits[r].snap, patch)
       IN \E ok \in BOOLEAN :
          IF ~ok
          THEN /\ last' = Resp("edit", id, 500, FALSE, patch, store[id])
               /\ UNCHANGED <<store, deletedNoWrite>>
          ELSE IF store[id] = NoItem
          THEN /\ last' = Resp("edit", id, 404, TRUE, patch, NoItem)
               /\ UNCHANGED <<store, deletedNoWrite>>
          ELSE /\ store' = [[store EXCEPT ![id] = NoItem] EXCEPT ![item.id] = item]
               /\ deletedNoWrite' = {}
               /\ last' = Resp("edit", id, 200, TRUE, patch, store[id])

\* mutant of EditWriteBack: replace_item is given the etag read and the store
\* refuses (412, a CosmosHttpResponseError) when the document changed since
EditWriteBackEtag(r) ==
    /\ edits[r] # NoEdit
    /\ edits' = [edits EXCEPT ![r] = NoEdit]
    /\ UNCHANGED <<written, appVars, depVars>>
    /\ LET id == edits[r].key
           patch == edits[r].patch
           item == Merge(edits[r].snap, patch)
       IN \E ok \in BOOLEAN :
          IF ~ok
          THEN /\ last' = Resp("edit", id, 500, FALSE, patch, store[id])
               /\ UNCHANGED <<store, deletedNoWrite>>
          ELSE IF store[id] = NoItem
          THEN /\ last' = Resp("edit", id, 404, TRUE, patch, NoItem)
               /\ UNCHANGED <<store, deletedNoWrite>>
          ELSE IF item.id # id \/ store[id] # edits[r].snap
          THEN /\ last' = Resp("edit", id, 500, TRUE, patch, store[id])
               /\ UNCHANGED <<store, deletedNoWrite>>
          ELSE /\ store' = [store EXCEPT ![id] = item]
               /\ deletedNoWrite' = {}
               /\ last' = Resp("edit", id, 200, TRUE, patch, store[id])

\* PUT /edit/<id>, from item.update to the response
EditWriteBack(r) ==
    /\ edits[r] # NoEdit
    /\ edits' = [edits EXCEPT ![r] = NoEdit]
    /\ UNCHANGED <<written, appVars, depVars>>
    /\ LET id == edits[r].key
           patch == edits[r].patch
           item == Merge(edits[r].snap, patch)
       IN \E ok \in BOOLEAN :
          IF ~ok
          THEN /\ last' = Resp("edit", id, 500, FALSE, patch, store[id])
               /\ UNCHANGED <<store, deletedNoWrite>>
          ELSE IF store[id] = NoItem
          THEN /\ last' = Resp("edit", id, 404, TRUE, patch, NoItem)
               /\ UNCHANGED <<store, deletedNoWrite>>
          ELSE IF item.id # id
          THEN \* the body's partition key is not the one of the document
               \* read: the store refuses the replacement
               /\ \E st \in {404, 500} :
                     last' = Resp("edit", id, st, TRUE, patch, store[id])
               /\ UNCHANGED <<store, deletedNoWrite>>
          ELSE /\ store' = [store EXCEPT ![id] = item]
               /\ deletedNoWrite' = {}
               /\ last' = Resp("edit", id, 200, TRUE, patch, store[id])

\* one request at a time
NoEditInFlight == \A r \in EditReqs : edits[r] = NoEdit

NextCrud ==
    \/ NoEditInFlight /\ \E data \in Objects : WriteOrUpdateData(data)
    \/ NoEditInFlight /\ \E t \in Keys : RetrieveData(t)
    \/ NoEditInFlight /\ \E id \in Keys : DeleteData(id)
    \/ NoEditInFlight /\ \E id \in Keys, p \in Objects : EditRead(1, id, p)
    \/ EditWriteBack(1)

\* Concurrent writers of one record: /write and /edit requests on RaceKey,
\* any number of /edit requests up to NumEditReqs between read and write-back.
RaceKey == "t1"
RaceBodies == {[id |-> RaceKey, TenantId |-> Absent, name |-> "Acme"]}
RacePatches == {[id |-> Absent, TenantId |-> Absent, name |-> "Acme2"],
                [id |-> Absent, TenantId |-> "t2", name |-> Absent]}

NextRace ==
    \/ \E data \in RaceBodies : WriteOrUpdateData(data)
    \/ \E r \in EditReqs, p \in RacePatches : EditRead(r, RaceKey, p)
    \/ \E r \in EditReqs : EditWriteBack(r)

----------------------------------------------------------------------------
(* /createApp *)

AppBodies == [app : {Absent, Empty, "portal"},
              org_name : {Absent, Empty, "Acme Co"},
              email : {Absent, Empty, "admin@acme.example"},
              initiate_login_uri : {Absent, Empty, "https://acme.example"}]

\* the body null: every data.get raises
AppNull == [app |-> Null, org_name |-> Null, email |-> Null,
            initiate_login_uri |-> Null]

\* applications the provider holds before a new request is started
MaxObjects == 2

\* data.get('initiate_login_uri', "http://localhost:3000")
InitiateLoginUri(data) ==
    IF data.initiate_login_uri = Absent THEN "http://localhost:3000"
    ELSE data.initiate_login_uri

\* org_name.lower().replace(" ", "-"), on the names of AppBodies
OrgMachineName(org_name) ==
    IF org_name = "Acme Co" THEN "acme-co" ELSE org_name

\* the dict of the validation, in its order
Checked(data) ==
    <<[k |-> "app", v |-> data.app],
      [k |-> "org_name", v |-> data.org_name],
      [k |-> "email", v |-> data.email],
      [k |-> "initiate_login_uri", v |-> InitiateLoginUri(data)]>>

IsFalsy(e) == Falsy(e.v)

\* [k for k, v in {...}.items() if not v]
Missing(data) ==
    LET miss == SelectSeq(Checked(data), IsFalsy)
    IN [i \in 1..Len(miss) |-> miss[i].k]

Counts == [clients |-> Cardinality(clients), orgs |-> Cardinality(orgs),
           conns |-> Cardinality(conns), invites |-> Cardinality(invites)]

InitApp ==
    /\ appPc = "idle"
    /\ appBody = AppNull
    /\ appCalls = <<>>
    /\ appStatus = 0
    /\ appMsg = <<>>
    /\ appClient = 0
    /\ appOrg = 0
    /\ appBase = [clients |-> 0, orgs |-> 0, conns |-> 0, invites |-> 0]
    /\ orphans = [clients |-> {}, orgs |-> {}]
    /\ clients = {}
    /\ orgs = {}
    /\ conns = {}
    /\ invites = {}

\* the except clause of create_auth0_app: 500, nothing undone
AppFail(call) ==
    /\ appCalls' = Append(appCalls, [call |-> call, ok |-> FALSE])
    /\ appPc' = "done"
    /\ appStatus' = 500
    /\ orphans' = [clients |-> orphans.clients \cup ({appClient} \ {0}),
                   orgs |-> orphans.orgs \cup ({appOrg} \ {0})]

AppOk(call, pc) ==
    /\ appCalls' = Append(appCalls, [call |-> call, ok |-> TRUE])
    /\ appPc' = pc
    /\ UNCHANGED orphans

\* mutant of CreateAppBegin: the validation leaves out email
CreateAppBeginNoEmail(data) ==
    /\ appPc \in {"idle", "done"}
    /\ Cardinality(clients) < MaxObjects
    /\ appBody' = data
    /\ appCalls' = <<>>
    /\ appClient' = 0
    /\ appOrg' = 0
    /\ appBase' = Counts
    /\ UNCHANGED <<orphans, clients, orgs, conns, invites, storeVars, depVars>>
    /\ IF data = AppNull
       THEN appPc' = "done" /\ appStatus' = 500 /\ appMsg' = <<>>
       ELSE IF Falsy(data.app) \/ Falsy(data.org_name)
               \/ Falsy(InitiateLoginUri(data))
       THEN appPc' = "done" /\ appStatus' = 400 /\ appMsg' = Missing(data)
       ELSE appPc' = "token" /\ appStatus' = 0 /\ appMsg' = <<>>

\* POST /createApp up to the validation (lines 97-115)
CreateAppBegin(data) ==
    /\ appPc \in {"idle", "done"}
    /\ Cardinality(clients) < MaxObjects
    /\ appBody' = data
    /\ appCalls' = <<>>
    /\ appClient' = 0
    /\ appOrg' = 0
    /\ appBase' = Counts
    /\ UNCHANGED <<orphans, clients, orgs, conns, invites, storeVars, depVars>>
    /\ IF data = AppNull
       THEN appPc' = "done" /\ appStatus' = 500 /\ appMsg' = <<>>
       ELSE IF Missing(data) # <<>>
       THEN appPc' = "done" /\ appStatus' = 400 /\ appMsg' = Missing(data)
       ELSE appPc' = "token" /\ appStatus' = 0 /\ appMsg' = <<>>

\* mutant of GetAuth0Client: the failure is logged and not raised again
GetAuth0ClientSwallow ==
    /\ appPc = "token"
    /\ UNCHANGED <<appBody, appMsg, appClient, appOrg, appBase, appStatus,
                   clients, orgs, conns, invites, storeVars, depVars>>
    /\ \E ok \in BOOLEAN :
          /\ appCalls' = Append(appCalls, [call |-> "token", ok |-> ok])
          /\ appPc' = "client"
          /\ UNCHANGED orphans

\* get_auth0_client: the client-credential exchange
GetAuth0Client ==
    /\ appPc = "token"
    /\ UNCHANGED <<appBody, appMsg, appClient, appOrg, appBase,
                   clients, orgs, conns, invites, storeVars, depVars>>
    /\ \E ok \in BOOLEAN :
          IF ok THEN AppOk("token", "client") /\ UNCHANGED appStatus
          ELSE AppFail("token")

\* auth0.clients.create
CreateClient ==
    /\ appPc = "client"
    /\ UNCHANGED <<appBody, appMsg, appOrg, appBase,
                   orgs, conns, invites, storeVars, depVars>>
    /\ \E ok \in BOOLEAN :
          IF ok
          THEN LET cid == Cardinality(clients) + 1
               IN /\ clients' = clients \cup {[id |-> cid, name |-> appBody.app]}
                  /\ appClient' = cid
                  /\ AppOk("client", "org")
                  /\ UNCHANGED appStatus
          ELSE AppFail("client") /\ UNCHANGED <<clients, appClient>>

\* mutant of CreateOrganization: a failure deletes the application created
CreateOrganizationRollback ==
    /\ appPc = "org"
    /\ UNCHANGED <<appBody, appMsg, appClient, appBase,
                   conns, invites, storeVars, depVars>>
    /\ \E ok \in BOOLEAN :
          IF ok
          THEN LET oid == Cardinality(orgs) + 1
               IN /\ orgs' = orgs \cup {[id |-> oid,
                                         name |-> OrgMachineName(appBody.org_name),
                                         display_name |-> appBody.org_name]}
                  /\ appOrg' = oid
                  /\ AppOk("org", "conn")
                  /\ UNCHANGED <<appStatus, clients>>
          ELSE /\ AppFail("org")
               /\ clients' = {c \in clients : c.id # appClient}
               /\ UNCHANGED <<orgs, appOrg>>

\* auth0.organizations.create_organization
CreateOrganization ==
    /\ appPc = "org"
    /\ UNCHANGED <<appBody, appMsg, appClient, appBase,
                   clients, conns, invites, storeVars, depVars>>
    /\ \E ok \in BOOLEAN :
          IF ok
          THEN LET oid == Cardinality(orgs) + 1
               IN /\ orgs' = orgs \cup {[id |-> oid,
                                         name |-> OrgMachineName(appBody.org_name),
                                         display_name |-> appBody.org_name]}
                  /\ appOrg' = oid
                  /\ AppOk("org", "conn")
                  /\ UNCHANGED appStatus
          ELSE AppFail("org") /\ UNCHANGED <<orgs, appOrg>>

\* auth0.organizations.create_organization_connection
CreateOrganizationConnection ==
    /\ appPc = "conn"
    /\ UNCHANGED <<appBody, appMsg, appClient, appOrg, appBase,
                   clients, orgs, invites, storeVars, depVars>>
    /\ \E ok \in BOOLEAN :
          IF ok
          THEN /\ conns' = conns \cup {[org |-> appOrg, connection_id |-> "con_123456"]}
               /\ AppOk("conn", "invite")
               /\ UNCHANGED appStatus
          ELSE AppFail("conn") /\ UNCHANGED conns

\* auth0.organizations.create_organization_invitation and the 201 response
CreateOrganizationInvitation ==
    /\ appPc = "invite"
    /\ UNCHANGED <<appBody, appMsg, appClient, appOrg, appBase,
                   clients, orgs, conns, storeVars, depVars>>
    /\ \E ok \in BOOLEAN :
          IF ok
          THEN /\ invites' = invites \cup {[org |-> appOrg, email |-> appBody.email,
                                            client_id |-> appClient]}
               /\ AppOk("invite", "done")
               /\ appStatus' = 201
          ELSE AppFail("invite") /\ UNCHANGED invites

NextApp ==
    \/ \E data \in AppBodies \cup {AppNull} : CreateAppBegin(data)
    \/ GetAuth0Client
    \/ CreateClient
    \/ CreateOrganization
    \/ CreateOrganizationConnection
    \/ CreateOrganizationInvitation

----------------------------------------------------------------------------
(* /trigger-deploy *)

DeployBodies == [repo : {Absent, Empty, "web", "api"},
                 workflow_id : {Absent, Empty, "deploy.yml", "test.yml"}]

DeployNull == [repo |-> Null, workflow_id |-> Null]

DepResp(data, status, sent) == [body |-> data, status |-> status, sent |-> sent]

InitDep ==
    /\ ghPat = "ghp_dummyPAT"
    /\ ghOwner = "dummy-owner"
    /\ depLast = DepResp(DeployNull, 0, FALSE)
    /\ dispatched = {}

\* the environment may set either variable to the empty string
InitDepAnyConfig ==
    /\ ghPat \in {Empty, "ghp_dummyPAT"}
    /\ ghOwner \in {Empty, "dummy-owner"}
    /\ depLast = DepResp(DeployNull, 0, FALSE)
    /\ dispatched = {}

\* what the CI platform can answer: 204, another status with a JSON body,
\* another status with a body that is no JSON, or nothing (transport error)
DispatchOutcomes == {"204", "404", "422", "503", "nojson", "unreachable"}

DispatchStatus(outcome) ==
    IF outcome = "204" THEN 200
    ELSE IF outcome = "404" THEN 404
    ELSE IF outcome = "422" THEN 422
    ELSE IF outcome = "503" THEN 503
    ELSE 500

\* mutant of TriggerDeployment: the workflow_id check is left out
TriggerDeploymentNoWorkflowCheck(data) ==
    /\ UNCHANGED <<ghPat, ghOwner, storeVars, appVars>>
    /\ IF data = DeployNull
       THEN depLast' = DepResp(data, 500, FALSE) /\ UNCHANGED dispatched
       ELSE IF Falsy(data.repo)
       THEN depLast' = DepResp(data, 400, FALSE) /\ UNCHANGED dispatched
       ELSE IF Falsy(ghPat) \/ Falsy(ghOwner)
       THEN depLast' = DepResp(data, 500, FALSE) /\ UNCHANGED dispatched
       ELSE /\ dispatched' = dispatched \cup
                   {[owner |-> ghOwner, repo |-> data.repo,
                     workflow_id |-> data.workflow_id, token |-> ghPat]}
            /\ \E outcome \in DispatchOutcomes :
                   depLast' = DepResp(data, DispatchStatus(outcome), TRUE)

\* POST /trigger-deploy
TriggerDeployment(data) ==
    /\ UNCHANGED <<ghPat, ghOwner, storeVars, appVars>>
    /\ IF data = DeployNull
       THEN depLast' = DepResp(data, 500, FALSE) /\ UNCHANGED dispatched
       ELSE IF Falsy(data.repo)
       THEN depLast' = DepResp(data, 400, FALSE) /\ UNCHANGED dispatched
       ELSE IF Falsy(data.workflow_id)
       THEN depLast' = DepResp(data, 400, FALSE) /\ UNCHANGED dispatched
       ELSE IF Falsy(ghPat) \/ Falsy(ghOwner)
       THEN depLast' = DepResp(data, 500, FALSE) /\ UNCHANGED dispatched
       ELSE /\ dispatched' = dispatched \cup
                   {[owner |-> ghOwner, repo |-> data.repo,
                     workflow_id |-> data.workflow_id, token |-> ghPat]}
            /\ \E outcome \in DispatchOutcomes :
                   depLast' = DepResp(data, DispatchStatus(outcome), TRUE)

NextDeploy ==
    \E data \in DeployBodies \cup {DeployNull} : TriggerDeployment(data)

----------------------------------------------------------------------------
(* Specifications *)

Init == InitStore /\ InitApp /\ InitDep

SpecCrud == Init /\ [][NextCrud]_vars
SpecRace == Init /\ [][NextRace]_vars
SpecCreateApp == Init /\ [][NextApp]_vars
InitDeploy == InitStore /\ InitApp /\ InitDepAnyConfig
SpecDeploy == InitDeploy /\ [][NextDeploy]_vars

----------------------------------------------------------------------------
(* Document store claims *)

\* C1: a POST /write of R answered 201, immediately followed by
\* GET /retrieve/<R.id> with the store reachable, gets 200 with exactly R.
C1_RoundTrip ==
    [][(/\ last.op = "write" /\ last.status = 201
        /\ last'.op = "retrieve" /\ last'.key = last.data.id
        /\ last'.storeOk)
       => (last'.status = 200 /\ last'.data = last.data)]_vars

\* C3 as stated: PUT /edit/<id> with any non-empty patch P on an existing
\* record S (store reachable) gets 200 and leaves under <id> the shallow
\* merge of S and P.
IsMergeOf(doc, S, P) ==
    \A f \in Fields : doc[f] = IF P[f] # Absent THEN P[f] ELSE S[f]

EditDone ==
    /\ last.op = "edit" /\ last.status # 0 /\ last.storeOk
    /\ last.data # NoItem /\ last.prev # NoItem

C4_DeleteThenRetrieve ==
    (last.op = "retrieve" /\ last.storeOk /\ last.key \in deletedNoWrite)
        => last.status = 404

\* C5: GET /retrieve/<id> for an id under which no record was ever written
\* (store reachable) gets 404.
C5_NeverWritten ==
    (last.op = "retrieve" /\ last.storeOk /\ last.key \notin written)
        => last.status = 404

C10_LostUpdate ==
    [][\A r \in EditReqs :
         (/\ edits[r] # NoEdit /\ edits'[r] = NoEdit
          /\ last'.storeOk /\ store[edits[r].key] # NoItem
          /\ edits[r].patch.id \in {Absent, edits[r].key})
         => /\ last'.status = 200
            /\ IsMergeOf(store'[edits[r].key], edits[r].snap, edits[r].patch)]_vars

\* an /edit answered 200 whose result is not the merge of its patch with
\* what was stored just before its write-back
C10_Witness ==
    /\ last.op = "edit" /\ last.status = 200
    /\ ~IsMergeOf(store[last.key], last.prev, last.data)

----------------------------------------------------------------------------
(* /createApp claims *)

\* the names among `names` that the body lacks: absent or empty, where an
\* absent initiate_login_uri is defaulted and so not lacking
Lacked(data, names) ==
    LET Lacks(k) == IF k = "initiate_login_uri" THEN data[k] = Empty
                    ELSE Falsy(data[k])
    IN SelectSeq(names, Lacks)

Required == <<"app", "org_name", "email">>

NoRemoteCall == appCalls = <<>> /\ Counts = appBase

\* C2 as stated: a /createApp whose body lacks any of app, org_name, email
\* gets 400 with a message listing exactly the lacking ones among those
\* three names, and no remote call is issued.
C2_MissingOfThree ==
    (appPc = "done" /\ appBody # AppNull /\ Lacked(appBody, Required) # <<>>)
        => /\ appStatus = 400
           /\ appMsg = Lacked(appBody, Required)
           /\ NoRemoteCall

\* C2 amended: a /createApp whose JSON-object body lacks any of app,
\* org_name, email gets 400 with a message listing exactly the lacking ones
\* among app, org_name, email and initiate_login_uri (the last one when it is
\* supplied empty), and no remote call is issued; a null body gets 500, also
\* with no remote call.
C2_MissingOfFour ==
    appPc = "done" =>
        /\ appBody = AppNull => (appStatus = 500 /\ NoRemoteCall)
        /\ (appBody # AppNull /\ Lacked(appBody, Required) # <<>>)
             => /\ appStatus = 400
                /\ appMsg = Lacked(appBody, Append(Required, "initiate_login_uri"))
                /\ NoRemoteCall

C2_Witness ==
    /\ appPc = "done" /\ appStatus = 400
    /\ appBody # AppNull
    /\ appBody.app = Absent /\ appBody.org_name = "Acme Co"
    /\ appBody.email = Empty /\ appBody.initiate_login_uri = Absent
    /\ appMsg = <<"app", "email">>
    /\ clients # {}

ChainOrder == <<"token", "client", "org", "conn", "invite">>

\* C6: the remote calls of a request are issued in the order token, client,
\* organization, connection, invitation, each only after the one before
\* succeeded, and only for a valid body; a failed token acquisition ends the
\* request with 500 and nothing created.
C6_StrictOrder ==
    /\ Len(appCalls) <= Len(ChainOrder)
    /\ \A i \in 1..Len(appCalls) : appCalls[i].call = ChainOrder[i]
    /\ \A i \in 2..Len(appCalls) : appCalls[i - 1].ok
    /\ appCalls # <<>> => Lacked(appBody, Append(Required, "initiate_login_uri")) = <<>>
    /\ (appCalls # <<>> /\ ~appCalls[1].ok)
         => /\ appPc = "done" /\ appStatus = 500
            /\ Len(appCalls) = 1
            /\ appClient = 0 /\ appOrg = 0
            /\ Counts = appBase

C6_Witness ==
    /\ appPc = "done" /\ appStatus = 201
    /\ Len(appCalls) = 5
    /\ \A i \in 1..5 : appCalls[i].ok
    /\ \E c \in clients : c.id = appClient
    /\ \E o \in orgs : o.id = appOrg

\* C9: no step removes an object from the identity provider; a request that
\* fails at client, organization, connection or invitation ends with 500 and
\* what it created is still there; and a client or organization creation that
\* succeeds adds a new object whatever the provider already holds, so that a
\* retry after a partial failure leaves two of the same name.
C9_NoCompensation ==
    [][/\ clients \subseteq clients' /\ orgs \subseteq orgs'
       /\ conns \subseteq conns' /\ invites \subseteq invites'
       /\ (/\ appPc # "done" /\ appPc' = "done"
           /\ Len(appCalls') >= 2 /\ ~appCalls'[Len(appCalls')].ok)
            => /\ appStatus' = 500
               /\ appClient # 0 => \E c \in clients' : c.id = appClient
               /\ appOrg # 0 => \E o \in orgs' : o.id = appOrg
       /\ (appPc = "client" /\ appPc' = "org")
            => Cardinality(clients') = Cardinality(clients) + 1
       /\ (appPc = "org" /\ appPc' = "conn")
            => Cardinality(orgs') = Cardinality(orgs) + 1]_vars

\* two applications and two organizations of the same name, one of each left
\* behind by a request that ended in 500
C9_Witness ==
    /\ \E c1 \in clients, c2 \in clients :
          c1.id \in orphans.clients /\ c1.id # c2.id /\ c1.name = c2.name
    /\ \E o1 \in orgs, o2 \in orgs :
          o1.id \in orphans.orgs /\ o1.id # o2.id /\ o1.name = o2.name

----------------------------------------------------------------------------
(* /trigger-deploy claims *)

\* C8: a /trigger-deploy with repo present and workflow_id absent or empty
\* gets 400 and no dispatch call; and no dispatch call is issued unless repo
\* and workflow_id are non-empty and GITHUB_PAT and GITHUB_OWNER are set.
C8_NoDispatch ==
    /\ (/\ depLast.status # 0 /\ depLast.body # DeployNull
        /\ ~Falsy(depLast.body.repo) /\ Falsy(depLast.body.workflow_id))
         => (depLast.status = 400 /\ ~depLast.sent)
    /\ depLast.sent
         => /\ depLast.body # DeployNull
            /\ ~Falsy(depLast.body.repo) /\ ~Falsy(depLast.body.workflow_id)
            /\ ~Falsy(ghPat) /\ ~Falsy(ghOwner)
    /\ \A d \in dispatched :
          /\ ~Falsy(d.repo) /\ ~Falsy(d.workflow_id)
          /\ ~Falsy(d.token) /\ ~Falsy(d.owner)

C8_Witness ==
    /\ depLast.body.repo = "web" /\ depLast.body.workflow_id = Absent
    /\ depLast.status = 400 /\ ~depLast.sent
    /\ dispatched # {}
====
